---- MODULE Spec2Model ----
(***************************************************************************)
(* TranslationHub backend: the session gate of services/server.js over the *)
(* two bodies of services/database.js (the in-memory mock and the MSSQL    *)
(* production body).                                                       *)
(*                                                                         *)
(* Strings that the code takes apart (the Authorization header, emails,    *)
(* passwords) are sequences of symbols: one-character strings, and, in a   *)
(* header, a whole token carried as one symbol that holds no space.        *)
(* Times are in seconds.                                                   *)
(***************************************************************************)
EXTENDS Integers, Sequences, FiniteSets, TLC

VARIABLES
    USE_MOCK_DB,        \* database.js:423, fixed at process start
    SESSION_SECRET,     \* process.env.SESSION_SECRET, "" when unset
    SESSION_EXPIRATION, \* parseInt(process.env.SESSION_EXPIRATION, 10): <<n>>, or <<>> for NaN
    now,                \* the clock (Date.now(), and the store's clock)
    dbUp,               \* whether the MSSQL server can be reached
    pool,               \* database.js:426: "null" or "connected"
    Users,              \* production table Users
    Sessions,           \* production table Sessions
    Translations,       \* production tables of text and voice translations
    mockUsers,          \* database.js:435, Map email -> user
    mockTranslations,   \* database.js:436, Map id -> translation, in insertion order
    uuids,              \* how many identifiers crypto.randomUUID / the store has handed out, per kind
    reqs,               \* requests the gate has passed on to their handler (next() called, handler not yet run)
    resp,               \* the last HTTP exchange: the request and the response sent for it
    guestTranslations,  \* the browser's localStorage item 'guestTranslations', as the parsed list
    screenError         \* the error state of the screen: const [error, setError] = useState('')

vars == <<USE_MOCK_DB, SESSION_SECRET, SESSION_EXPIRATION, now, dbUp, pool, Users, Sessions,
          Translations, mockUsers, mockTranslations, uuids, reqs, resp, guestTranslations, screenError>>

config == <<USE_MOCK_DB, SESSION_SECRET, SESSION_EXPIRATION>>
prodStore == <<Users, Sessions, Translations>>
mockStore == <<mockUsers, mockTranslations>>
browser == <<guestTranslations, screenError>>

(***************************************************************************)
(* Bounds of the model.                                                    *)
(***************************************************************************)
MaxTime == 2
MaxLogins == 1
MaxRegs == 2
MaxSaves == 1
MaxInFlight == 1
MaxHistory == 3
MaxCallers == 3
MaxGuestVoice == 2

(***************************************************************************)
(* Strings.                                                                *)
(***************************************************************************)
null == "<null>"

\* the line terminators, which . does not match, and the white space \s
LineFeed == "\n"
LineTerminators == {LineFeed}
WhiteSpace == {" ", LineFeed}

StartsWith(s, prefix) ==
    /\ Len(s) >= Len(prefix)
    /\ SubSeq(s, 1, Len(prefix)) = prefix

RECURSIVE Split(_, _)
Split(s, sep) ==
    IF \A i \in 1..Len(s) : s[i] # sep
    THEN <<s>>
    ELSE LET i == CHOOSE k \in 1..Len(s) : s[k] = sep /\ \A j \in 1..(k - 1) : s[j] # sep
         IN  <<SubSeq(s, 1, i - 1)>> \o Split(SubSeq(s, i + 1, Len(s)), sep)

RECURSIVE Concat(_)
Concat(symbols) ==
    IF symbols = <<>> THEN "" ELSE Head(symbols) \o Concat(Tail(symbols))

Bearer_ == <<"B", "e", "a", "r", "e", "r", " ">>

NoHeader == [present |-> FALSE, value |-> <<>>]
HeaderOf(value) == [present |-> TRUE, value |-> value]

(***************************************************************************)
(* Cryptography, by what the callers rely on: HMAC-SHA256 is a function of *)
(* key and message, injective for the purposes of the model; a UUID is     *)
(* fresh; a bcrypt hash holds its salt and verifies exactly its password.  *)
(***************************************************************************)
createHmac(key, data) == "hmac(" \o key \o "," \o data \o ")"

randomUUID(kind) == kind \o ToString(uuids[kind] + 1)

bcryptHash(password, salt) == <<"bcrypt", salt, password>>

bcryptCompare(password, hash) == hash[3] = password

sessionKey == IF SESSION_SECRET = "" THEN "default-secret" ELSE SESSION_SECRET

(***************************************************************************)
(* Inputs.                                                                 *)
(***************************************************************************)
EmailA == <<"a", "@", "x", ".", "y">>
EmailB == <<"b", "@", "x", ".", "y">>
NotAnEmail == <<"n", "o", "t", "-", "a", "n", "-", "e", "m", "a", "i", "l">>
Passw0rd == <<"P", "a", "s", "s", "w", "0", "r", "d", "!">>
Wrong == <<"w", "r", "o", "n", "g">>

Emails == {EmailA, EmailB}
RegisterEmails == Emails \cup {NotAnEmail}
RegisterPasswords == {Passw0rd, Wrong}
LoginPasswords == {Passw0rd, Wrong}

\* passwords on each side of each rule of the policy
short1 == <<"s", "h", "o", "r", "t", "1">>
Short1_ == <<"S", "h", "o", "r", "t", "1", "!">>
Short12_ == <<"S", "h", "o", "r", "t", "1", "2", "!">>
NoSymbol == <<"P", "a", "s", "s", "w", "0", "r", "d">>
NoUpper == <<"p", "a", "s", "s", "w", "0", "r", "d", "!">>
OtherSymbol == <<"P", "a", "s", "s", "w", "0", "r", "d", "?">>
TwoLines == <<"a", LineFeed, "B", "c", "d", "e", "f", "g", "!">>

RegistrationEmails == RegisterEmails \cup {<<>>}
RegistrationPasswords ==
    {<<>>, Passw0rd, Wrong, short1, Short1_, Short12_, NoSymbol, NoUpper, OtherSymbol, TwoLines}

Secrets == {"", "k1"}
Expirations == {<<>>, <<0>>, <<1>>}

UserIds == {"user1", "user2"}
RawSessionIds == {"sess" \o ToString(i) : i \in 1..MaxLogins}
\* what a client can put after "Bearer ": a token some login signs, the raw
\* session id, a signature under another key, and text no login ever hands out
Tokens ==
    {createHmac(k, r) : k \in {"default-secret", "k1"}, r \in RawSessionIds}
        \cup {"sess1", "forged"}

Headers ==
    {NoHeader, HeaderOf(<<"B", "e", "a", "r", "e", "r">>), HeaderOf(Bearer_)}
        \cup {HeaderOf(Bearer_ \o <<t>>) : t \in Tokens}
        \cup {HeaderOf(Bearer_ \o <<" ", t>>) : t \in {"forged"}}
        \cup {HeaderOf(<<"B", "a", "s", "i", "c", " ", t>>) : t \in {"forged"}}

(***************************************************************************)
(* server.js: input validation.                                            *)
(***************************************************************************)
Upper == {"A", "B", "C", "D", "E", "F", "G", "H", "I", "J", "K", "L", "M",
          "N", "O", "P", "Q", "R", "S", "T", "U", "V", "W", "X", "Y", "Z"}
Special == {"!", "@", "#", "$", "%", "^", "&", "*"}

\* [^\s@]+
NoSpaceNoAt(s) == Len(s) >= 1 /\ \A i \in 1..Len(s) : s[i] \notin WhiteSpace \cup {"@"}

\* /^\S+$/
validateEmail_NoSpace(email) ==
    Len(email) >= 1 /\ \A i \in 1..Len(email) : email[i] \notin WhiteSpace

\* /^[^\s@]+@[^\s@]+\.[^\s@]+$/
validateEmail(email) ==
    \E i, j \in 1..Len(email) :
        /\ i < j
        /\ email[i] = "@"
        /\ email[j] = "."
        /\ NoSpaceNoAt(SubSeq(email, 1, i - 1))
        /\ NoSpaceNoAt(SubSeq(email, i + 1, j - 1))
        /\ NoSpaceNoAt(SubSeq(email, j + 1, Len(email)))

\* .*[class], looked for from the start of the string: . stops at a line terminator
Ahead(s, class) ==
    \E i \in 1..Len(s) :
        /\ s[i] \in class
        /\ \A j \in 1..(i - 1) : s[j] \notin LineTerminators

\* /^(?=.*[A-Z])(?=.*[!@#$%^&*])/
validatePassword_NoLength(password) ==
    /\ Ahead(password, Upper)
    /\ Ahead(password, Special)

\* /^(?=.*[A-Z])(?=.*[!@#$%^&*])(?=.{8,})/
validatePassword(password) ==
    /\ Ahead(password, Upper)
    /\ Ahead(password, Special)
    /\ Len(password) >= 8
    /\ \A j \in 1..8 : password[j] \notin LineTerminators

(***************************************************************************)
(* The HTTP exchange that resp records.                                    *)
(***************************************************************************)
AuthReq(email, password) ==
    [header |-> NoHeader, email |-> email, password |-> password, userId |-> null,
     default_from_lang |-> "", default_to_lang |-> ""]
ApiReq(header, userId, fromLang, toLang) ==
    [header |-> header, email |-> <<>>, password |-> <<>>, userId |-> userId,
     default_from_lang |-> fromLang, default_to_lang |-> toLang]

NoGate == [called |-> FALSE, isValid |-> "n/a", token |-> null]

\* status 0: no response was sent
Exchange(route, req, gate, backend, status, body) ==
    [route |-> route, req |-> req, gate |-> gate, backend |-> backend,
     status |-> status, body |-> body]

NoBody == [none |-> TRUE]

(***************************************************************************)
(* database.js, production body: the connection pool.                      *)
(***************************************************************************)
\* getPool that throws on a missing pool without calling sql.connect
getPool_NoReconnect ==
    IF pool # "connected" THEN [ok |-> FALSE, pool |-> "null"]
    ELSE [ok |-> TRUE, pool |-> pool]

\* getPool, database.js:554-575: [ok, pool], ok = FALSE when it throws
getPool ==
    IF pool # "connected"
    THEN IF dbUp
         THEN [ok |-> TRUE, pool |-> "connected"]
         ELSE [ok |-> FALSE, pool |-> "null"]
    ELSE [ok |-> TRUE, pool |-> pool]

\* a request on an acquired pool completes iff the server can be reached
Reachable == getPool.ok /\ dbUp

ErrorMessage == IF getPool.ok THEN "ConnectionError: connection lost"
                ELSE "Failed to connect to the database: ETIMEOUT"

(***************************************************************************)
(* registerUser.                                                           *)
(***************************************************************************)
\* spRegisterUser: the email is unique; a new row gets a new id and empty languages
spRegisterUser(email, passwordHash) ==
    IF \E u \in Users : u.email = email
    THEN [ok |-> FALSE, Users |-> Users]
    ELSE [ok |-> TRUE,
          Users |-> Users \cup {[id |-> randomUUID("user"), email |-> email,
                                 password_hash |-> passwordHash,
                                 default_from_lang |-> "", default_to_lang |-> ""]}]

\* database.js:583-601
registerUserProd(email, password) ==
    LET passwordHash == bcryptHash(password, uuids["user"] + 1)
        sp == spRegisterUser(email, passwordHash)
    IN  IF ~Reachable
        THEN [result |-> [success |-> FALSE, error |-> ErrorMessage], Users |-> Users]
        ELSE IF ~sp.ok
        THEN [result |-> [success |-> FALSE, error |-> "Email already registered"], Users |-> Users]
        ELSE [result |-> [success |-> TRUE, message |-> "Registration successful"],
              Users |-> sp.Users]

\* database.js:440-445
registerUserMock(email, password) ==
    LET userId == randomUUID("user")
    IN  [result |-> [success |-> TRUE, user |-> [id |-> userId, email |-> email]],
         mockUsers |-> [e \in DOMAIN mockUsers \cup {email} |->
                           IF e = email THEN [id |-> userId, email |-> email, password |-> password]
                           ELSE mockUsers[e]]]

Bump(kind) == [uuids EXCEPT ![kind] = @ + 1]

\* POST /api/register, server.js:115-137
Register(email, password) ==
    LET req == AuthReq(email, password)
        Reject(error) ==
            /\ resp' = Exchange("register", req, NoGate, FALSE, 400, [success |-> FALSE, error |-> error])
            /\ UNCHANGED <<config, browser, now, dbUp, pool, prodStore, mockStore, uuids, reqs>>
    IN  IF email = <<>> \/ password = <<>>
        THEN Reject("Email and password are required")
        ELSE IF ~validateEmail(email)
        THEN Reject("Invalid email format")
        ELSE IF ~validatePassword(password)
        THEN Reject("Password must be at least 8 characters long, contain at least one uppercase letter, and one special character")
        ELSE IF USE_MOCK_DB
        THEN LET r == registerUserMock(email, password)
             IN  /\ uuids["user"] < MaxRegs
                 /\ mockUsers' = r.mockUsers
                 /\ uuids' = Bump("user")
                 /\ resp' = Exchange("register", req, NoGate, TRUE, 200, r.result)
                 /\ UNCHANGED <<config, browser, now, dbUp, pool, prodStore, mockTranslations, reqs>>
        ELSE LET r == registerUserProd(email, password)
             IN  /\ r.result.success => uuids["user"] < MaxRegs
                 /\ Users' = r.Users
                 /\ uuids' = IF r.result.success THEN Bump("user") ELSE uuids
                 /\ pool' = getPool.pool
                 /\ resp' = Exchange("register", req, NoGate, TRUE,
                                     IF r.result.success THEN 200 ELSE 400, r.result)
                 /\ UNCHANGED <<config, browser, now, dbUp, Sessions, Translations, mockStore, reqs>>

(***************************************************************************)
(* loginUser.                                                              *)
(***************************************************************************)
\* spLoginUser: the rows of Users with this email
spLoginUser(email) == {u \in Users : u.email = email}

\* spCreateSession: one more row of Sessions
spCreateSession(userId, sessionId, expiresAt, signedSessionId) ==
    Sessions \cup {[session_id |-> sessionId, signed_session_id |-> signedSessionId,
                    user_id |-> userId, expires_at |-> expiresAt]}

InvalidCredentials == [success |-> FALSE, error |-> "Invalid email or password"]

\* new Date(parseInt(SESSION_EXPIRATION, 10)): the clock left out
expiresAt_NoClock == SESSION_EXPIRATION[1]

\* database.js:637: new Date(Date.now() + parseInt(SESSION_EXPIRATION, 10) * 1000)
expiresAt == now + SESSION_EXPIRATION[1]

\* database.js:614-660. A NaN SESSION_EXPIRATION makes expiresAt an Invalid Date,
\* which the driver refuses as a DateTime parameter: the insert throws.
loginUserProd(email, password) ==
    LET recordset == spLoginUser(email)
        user == CHOOSE u \in recordset : TRUE
        validPassword == bcryptCompare(password, user.password_hash)
        rawSessionId == randomUUID("sess")
        sessionId == rawSessionId
        signedSessionId == createHmac(sessionKey, rawSessionId)
        Fail(r) == [result |-> r, Sessions |-> Sessions]
    IN  IF ~Reachable THEN Fail([success |-> FALSE, error |-> ErrorMessage])
        ELSE IF recordset = {} THEN Fail(InvalidCredentials)
        ELSE IF ~validPassword THEN Fail(InvalidCredentials)
        ELSE IF SESSION_EXPIRATION = <<>> THEN Fail([success |-> FALSE, error |-> "Invalid date."])
        ELSE [result |-> [success |-> TRUE,
                          user |-> [id |-> user.id, email |-> user.email,
                                    session_id |-> sessionId,
                                    signed_session_id |-> signedSessionId,
                                    default_from_lang |-> user.default_from_lang,
                                    default_to_lang |-> user.default_to_lang]],
              Sessions |-> spCreateSession(user.id, sessionId, expiresAt, signedSessionId)]

\* database.js:447-465
loginUserMock(email, password) ==
    LET user == mockUsers[email]
        rawSessionId == randomUUID("sess")
        sessionId == rawSessionId
        signedSessionId == createHmac(sessionKey, rawSessionId)
    IN  IF email \notin DOMAIN mockUsers
        THEN [success |-> FALSE, error |-> "User not found"]
        ELSE [success |-> TRUE,
              user |-> [id |-> user.id, email |-> user.email,
                        session_id |-> sessionId,
                        signed_session_id |-> signedSessionId]]

\* POST /api/login, server.js:144-152
Login(email, password) ==
    LET req == AuthReq(email, password)
    IN  IF USE_MOCK_DB
        THEN LET result == loginUserMock(email, password)
             IN  /\ result.success => uuids["sess"] < MaxLogins
                 /\ uuids' = IF result.success THEN Bump("sess") ELSE uuids
                 /\ resp' = Exchange("login", req, NoGate, TRUE,
                                     IF result.success THEN 200 ELSE 401, result)
                 /\ UNCHANGED <<config, browser, now, dbUp, pool, prodStore, mockStore, reqs>>
        ELSE LET r == loginUserProd(email, password)
             IN  /\ r.result.success => uuids["sess"] < MaxLogins
                 /\ Sessions' = r.Sessions
                 /\ uuids' = IF r.result.success THEN Bump("sess") ELSE uuids
                 /\ pool' = getPool.pool
                 /\ resp' = Exchange("login", req, NoGate, TRUE,
                                     IF r.result.success THEN 200 ELSE 401, r.result)
                 /\ UNCHANGED <<config, browser, now, dbUp, Users, Translations, mockStore, reqs>>

(***************************************************************************)
(* validateSession and the gate.                                           *)
(***************************************************************************)
\* spValidateSession: the rows with this signed id that have not expired
spValidateSession(signedSessionId) ==
    {x \in Sessions : x.signed_session_id = signedSessionId /\ x.expires_at > now}

\* validateSession whose catch returns true
validateSessionProd_FailOpen(sessionId, signedSessionId) ==
    IF ~Reachable THEN "valid"
    ELSE IF Cardinality(spValidateSession(signedSessionId)) > 0 THEN "valid"
    ELSE "invalid"

\* validateSession returning result.recordset.length >= 0
validateSessionProd_AnyRecordset(sessionId, signedSessionId) ==
    IF ~Reachable THEN "invalid"
    ELSE IF Cardinality(spValidateSession(signedSessionId)) >= 0 THEN "valid"
    ELSE "invalid"

\* database.js:783-802
validateSessionProd(sessionId, signedSessionId) ==
    IF ~Reachable THEN "invalid"
    ELSE IF Cardinality(spValidateSession(signedSessionId)) > 0 THEN "valid"
    ELSE "invalid"

\* database.js:511-518. Hmac.update(null) throws a TypeError.
validateSessionMock(sessionId, signedSessionId) ==
    IF sessionId = null THEN "throws"
    ELSE IF signedSessionId = createHmac(sessionKey, sessionId) THEN "valid"
    ELSE "invalid"

validateSession(sessionId, signedSessionId) ==
    IF USE_MOCK_DB THEN validateSessionMock(sessionId, signedSessionId)
    ELSE validateSessionProd(sessionId, signedSessionId)

\* authenticate without the await: isValid is a Promise, which is truthy
authenticate_NoAwait(authHeader) ==
    IF ~authHeader.present \/ authHeader.value = <<>> \/ ~StartsWith(authHeader.value, Bearer_)
    THEN [outcome |-> "NoToken", status |-> 401,
          body |-> [success |-> FALSE, error |-> "Unauthorized: No token provided"],
          gate |-> NoGate]
    ELSE LET signedSessionId == Concat(Split(authHeader.value, " ")[2])
             isValid == validateSession(null, signedSessionId)
             gate == [called |-> TRUE, isValid |-> isValid, token |-> signedSessionId]
         IN  [outcome |-> "Authorized", status |-> 200, body |-> NoBody, gate |-> gate]

\* authenticate answering an invalid session with the other 401
authenticate_OneMessage(authHeader) ==
    IF ~authHeader.present \/ authHeader.value = <<>> \/ ~StartsWith(authHeader.value, Bearer_)
    THEN [outcome |-> "NoToken", status |-> 401,
          body |-> [success |-> FALSE, error |-> "Unauthorized: No token provided"],
          gate |-> NoGate]
    ELSE LET signedSessionId == Concat(Split(authHeader.value, " ")[2])
             isValid == validateSession(null, signedSessionId)
             gate == [called |-> TRUE, isValid |-> isValid, token |-> signedSessionId]
         IN  IF isValid = "throws"
             THEN [outcome |-> "Threw", status |-> 500, body |-> NoBody, gate |-> gate]
             ELSE IF isValid # "valid"
             THEN [outcome |-> "InvalidOrExpiredSession", status |-> 401,
                   body |-> [success |-> FALSE, error |-> "Unauthorized: No token provided"],
                   gate |-> gate]
             ELSE [outcome |-> "Authorized", status |-> 200, body |-> NoBody, gate |-> gate]

\* authenticate, server.js:91-105: what the middleware decides for a header
authenticate(authHeader) ==
    IF ~authHeader.present \/ authHeader.value = <<>> \/ ~StartsWith(authHeader.value, Bearer_)
    THEN [outcome |-> "NoToken", status |-> 401,
          body |-> [success |-> FALSE, error |-> "Unauthorized: No token provided"],
          gate |-> NoGate]
    ELSE LET signedSessionId == Concat(Split(authHeader.value, " ")[2])
             isValid == validateSession(null, signedSessionId)
             gate == [called |-> TRUE, isValid |-> isValid, token |-> signedSessionId]
         IN  IF isValid = "throws"
             THEN [outcome |-> "Threw", status |-> 500, body |-> NoBody, gate |-> gate]
             ELSE IF isValid # "valid"
             THEN [outcome |-> "InvalidOrExpiredSession", status |-> 401,
                   body |-> [success |-> FALSE, error |-> "Unauthorized: Invalid or expired session"],
                   gate |-> gate]
             ELSE [outcome |-> "Authorized", status |-> 200, body |-> NoBody, gate |-> gate]

\* A request arrives at a route behind the gate (server.js:159-236): authenticate
\* runs; it answers 401 itself, or calls next() and the request waits for its
\* handler. authenticate is the same on every such route and reads the header
\* alone, so the waiting request is kept with its header and the gate's verdict;
\* its route and parameters are drawn when the handler, which reads them, runs.
\* When validateSession throws, the rejected promise of the async middleware is
\* either left unhandled (no response, status 0) or given to the error handler
\* (500), depending on the Express version.
Request(header) ==
    LET req == ApiReq(header, null, "", "")
        a == authenticate(header)
    IN  /\ pool' = IF a.gate.called /\ ~USE_MOCK_DB THEN getPool.pool ELSE pool
        /\ IF a.outcome = "Authorized"
           THEN /\ Cardinality(reqs) < MaxInFlight
                /\ reqs' = reqs \cup {[header |-> header, gate |-> a.gate,
                                      signedSessionId |-> a.gate.token]}
                /\ UNCHANGED resp
           ELSE IF a.outcome = "Threw"
           THEN /\ \E status \in {0, 500} :
                       resp' = Exchange("gate", req, a.gate, FALSE, status, NoBody)
                /\ UNCHANGED reqs
           ELSE /\ resp' = Exchange("gate", req, a.gate, FALSE, a.status, a.body)
                /\ UNCHANGED reqs
        /\ UNCHANGED <<config, browser, now, dbUp, prodStore, mockStore, uuids>>

LangPairs == {<<"en", "fr">>, <<"", "fr">>}

(***************************************************************************)
(* The operations behind the gate.                                         *)
(***************************************************************************)
BackendError == [success |-> FALSE, error |-> ErrorMessage]

\* logoutUser deleting by the raw session id, as the sessions were keyed before they were signed
logoutUserProd_BySessionId(signedSessionId) ==
    IF ~Reachable THEN [result |-> BackendError, Sessions |-> Sessions]
    ELSE [result |-> [success |-> TRUE, message |-> "Logged out successfully"],
          Sessions |-> {x \in Sessions : x.session_id # signedSessionId}]

\* database.js:666-679
logoutUserProd(signedSessionId) ==
    IF ~Reachable THEN [result |-> BackendError, Sessions |-> Sessions]
    ELSE [result |-> [success |-> TRUE, message |-> "Logged out successfully"],
          Sessions |-> {x \in Sessions : x.signed_session_id # signedSessionId}]

\* database.js:506-509
logoutUserMock(signedSessionId) ==
    [success |-> TRUE, message |-> "Logged out successfully"]

NewTranslation(userId, type) ==
    [id |-> randomUUID("tr"), userId |-> userId, fromLang |-> "en", toLang |-> "fr",
     originalText |-> "hello", translatedText |-> "bonjour", createdAt |-> now, type |-> type]

\* spSaveTextTranslation, spSaveVoiceTranslation: one more row, stamped by the store
spSaveTranslation(userId, type) == Append(Translations, NewTranslation(userId, type))

\* database.js:687-705 and 732-750
saveTranslationProd(userId, type) ==
    IF ~Reachable THEN [result |-> BackendError, Translations |-> Translations]
    ELSE [result |-> [success |-> TRUE,
                      message |-> IF type = "text" THEN "Translation saved"
                                  ELSE "Voice translation saved"],
          Translations |-> spSaveTranslation(userId, type)]

\* database.js:467-473 and 482-497
saveTranslationMock(userId, type) ==
    LET newTranslation == NewTranslation(userId, type)
    IN  [result |-> IF type = "text" THEN newTranslation
                    ELSE [success |-> TRUE, message |-> "Voice translation saved",
                          translation |-> newTranslation],
         mockTranslations |-> Append(mockTranslations, newTranslation)]

SelectSeq2(seq, userId, type) ==
    SelectSeq(seq, LAMBDA t : t.userId = userId /\ t.type = type)

\* Array.prototype.sort((a, b) => b.createdAt - a.createdAt): stable, newest first
RECURSIVE SortNewestFirst(_)
SortNewestFirst(seq) ==
    IF seq = <<>> THEN <<>>
    ELSE LET i == CHOOSE k \in 1..Len(seq) :
                      /\ \A j \in 1..Len(seq) : seq[j].createdAt <= seq[k].createdAt
                      /\ \A j \in 1..(k - 1) : seq[j].createdAt < seq[k].createdAt
         IN  <<seq[i]>> \o SortNewestFirst(SubSeq(seq, 1, i - 1) \o SubSeq(seq, i + 1, Len(seq)))

\* spGetUserTextTranslations, spGetUserVoiceTranslations: the user's rows, newest first
spGetUserTranslations(userId, type) == SortNewestFirst(SelectSeq2(Translations, userId, type))

\* database.js:712-725 and 759-772
getTranslationHistoryProd(userId, type) ==
    IF ~Reachable THEN BackendError
    ELSE [array |-> spGetUserTranslations(userId, type)]

\* a history that filters on the user alone
getTranslationHistoryMock_AnyKind(userId, type) ==
    [array |-> SortNewestFirst(SelectSeq(mockTranslations, LAMBDA t : t.userId = userId))]

\* database.js:475-480 and 499-504
getTranslationHistoryMock(userId, type) ==
    [array |-> SortNewestFirst(SelectSeq2(mockTranslations, userId, type))]

\* database.js:849-875: [ok, row], or [ok = FALSE, error] when it throws
getUserPreferencesProd(userId) ==
    LET recordset == {u \in Users : u.id = userId}
        row == CHOOSE u \in recordset : TRUE
    IN  IF ~Reachable THEN [ok |-> FALSE, error |-> ErrorMessage]
        ELSE IF Cardinality(recordset) = 0 THEN [ok |-> FALSE, error |-> "User not found"]
        ELSE [ok |-> TRUE, row |-> [default_from_lang |-> row.default_from_lang,
                                    default_to_lang |-> row.default_to_lang]]

\* database.js:525-529: the mock users carry no language fields
getUserPreferencesMock(userId) ==
    [ok |-> TRUE, row |-> [default_from_lang |-> "", default_to_lang |-> ""]]

\* spUpdateUserPreferences: the rows of Users with this id, updated
spUpdateUserPreferences(userId, defaultFromLang, defaultToLang) ==
    {IF u.id = userId
     THEN [u EXCEPT !.default_from_lang = defaultFromLang, !.default_to_lang = defaultToLang]
     ELSE u : u \in Users}

\* database.js:813-840
updateUserPreferencesProd(userId, defaultFromLang, defaultToLang) ==
    LET rowsAffected == Cardinality({u \in Users : u.id = userId})
    IN  IF ~Reachable THEN [result |-> BackendError, Users |-> Users]
        ELSE IF rowsAffected = 0
        THEN [result |-> [success |-> FALSE,
                          error |-> "No rows updated - User not found or no change detected"],
              Users |-> Users]
        ELSE [result |-> [success |-> TRUE, message |-> "Preferences updated",
                          user |-> [default_from_lang |-> defaultFromLang,
                                    default_to_lang |-> defaultToLang]],
              Users |-> spUpdateUserPreferences(userId, defaultFromLang, defaultToLang)]

\* database.js:520-523
updateUserPreferencesMock(userId, defaultFromLang, defaultToLang) ==
    [success |-> TRUE, message |-> "Preferences updated"]

\* a handler that answers 200 whatever the result
StatusOf_Always200(result) == 200

StatusOf(result) == IF "success" \in DOMAIN result /\ result.success THEN 200 ELSE 400

\* reqs holds the distinct requests that wait: a client can send the same request
\* again while it waits, so when one is handled an equal one may still be waiting
Done(r) == reqs' \in {reqs, reqs \ {r}}
Respond(r, route, userId, langs, backend, status, body) ==
    resp' = Exchange(route, ApiReq(r.header, userId, langs[1], langs[2]), r.gate,
                     backend, status, body)
NoLangs == <<"", "">>

\* POST /api/logout, server.js:159-167
HandleLogout(r) ==
    /\ Done(r)
    /\ IF USE_MOCK_DB
       THEN /\ Respond(r, "logout", null, NoLangs, TRUE, 200, logoutUserMock(r.signedSessionId))
            /\ UNCHANGED <<pool, Sessions>>
       ELSE LET o == logoutUserProd(r.signedSessionId)
            IN  /\ Sessions' = o.Sessions
                /\ pool' = getPool.pool
                /\ Respond(r, "logout", null, NoLangs, TRUE, StatusOf(o.result), o.result)
    /\ UNCHANGED <<config, browser, now, dbUp, Users, Translations, mockStore, uuids>>

RouteOf(op, type) == op \o (IF type = "text" THEN "Text" ELSE "Voice")

\* POST /api/translation/text and /voice, server.js:170-178 and 192-200
HandleSave(r, type, userId) ==
    /\ Done(r)
    /\ IF USE_MOCK_DB
       THEN LET o == saveTranslationMock(userId, type)
            IN  /\ uuids["tr"] < MaxSaves
                /\ mockTranslations' = o.mockTranslations
                /\ uuids' = Bump("tr")
                /\ Respond(r, RouteOf("save", type), userId, NoLangs, TRUE,
                           StatusOf(o.result), o.result)
                /\ UNCHANGED <<pool, Translations>>
       ELSE LET o == saveTranslationProd(userId, type)
            IN  /\ o.result.success => uuids["tr"] < MaxSaves
                /\ Translations' = o.Translations
                /\ uuids' = IF o.result.success THEN Bump("tr") ELSE uuids
                /\ pool' = getPool.pool
                /\ Respond(r, RouteOf("save", type), userId, NoLangs, TRUE,
                           StatusOf(o.result), o.result)
                /\ UNCHANGED mockTranslations
    /\ UNCHANGED <<config, browser, now, dbUp, Users, Sessions, mockUsers>>

\* GET /api/translation/text/:userId and /voice/:userId, server.js:181-189 and 203-211
HandleHistory(r, type, userId) ==
    /\ Done(r)
    /\ IF USE_MOCK_DB
       THEN /\ Respond(r, RouteOf("history", type), userId, NoLangs, TRUE, 200,
                       getTranslationHistoryMock(userId, type))
            /\ UNCHANGED pool
       ELSE /\ Respond(r, RouteOf("history", type), userId, NoLangs, TRUE, 200,
                       getTranslationHistoryProd(userId, type))
            /\ pool' = getPool.pool
    /\ UNCHANGED <<config, browser, now, dbUp, prodStore, mockStore, uuids>>

\* POST /api/user/preferences, server.js:214-225
HandleUpdatePreferences(r, userId, langs) ==
    /\ Done(r)
    /\ IF userId = "" \/ langs[1] = "" \/ langs[2] = ""
       THEN /\ Respond(r, "updatePreferences", userId, langs, FALSE, 400,
                       [success |-> FALSE,
                        error |-> "All fields are required: userId, default_from_lang, default_to_lang"])
            /\ UNCHANGED <<pool, Users>>
       ELSE IF USE_MOCK_DB
       THEN /\ Respond(r, "updatePreferences", userId, langs, TRUE, 200,
                       updateUserPreferencesMock(userId, langs[1], langs[2]))
            /\ UNCHANGED <<pool, Users>>
       ELSE LET o == updateUserPreferencesProd(userId, langs[1], langs[2])
            IN  /\ Users' = o.Users
                /\ pool' = getPool.pool
                /\ Respond(r, "updatePreferences", userId, langs, TRUE,
                           StatusOf(o.result), o.result)
    /\ UNCHANGED <<config, browser, now, dbUp, Sessions, Translations, mockStore, uuids>>

\* GET /api/user/preferences/:userId, server.js:228-236
HandleGetPreferences(r, userId) ==
    /\ Done(r)
    /\ LET o == IF USE_MOCK_DB THEN getUserPreferencesMock(userId)
                ELSE getUserPreferencesProd(userId)
       IN  /\ Respond(r, "getPreferences", userId, NoLangs, TRUE,
                      IF o.ok THEN 200 ELSE 500,
                      IF o.ok THEN [success |-> TRUE, preferences |-> o.row]
                      ELSE [success |-> FALSE, error |-> o.error])
           /\ pool' = IF USE_MOCK_DB THEN pool ELSE getPool.pool
    /\ UNCHANGED <<config, browser, now, dbUp, prodStore, mockStore, uuids>>

(***************************************************************************)
(* The environment: the clock, and the database server going away and      *)
(* coming back. The pool object stays as it is: only close(), which the    *)
(* program never calls, clears its connected flag.                         *)
(***************************************************************************)
Tick ==
    /\ now < MaxTime
    /\ now' = now + 1
    /\ UNCHANGED <<config, browser, dbUp, pool, prodStore, mockStore, uuids, reqs, resp>>

DbDown ==
    /\ ~USE_MOCK_DB
    /\ dbUp
    /\ dbUp' = FALSE
    /\ UNCHANGED <<config, browser, now, pool, prodStore, mockStore, uuids, reqs, resp>>

DbUp ==
    /\ ~USE_MOCK_DB
    /\ ~dbUp
    /\ dbUp' = TRUE
    /\ UNCHANGED <<config, browser, now, pool, prodStore, mockStore, uuids, reqs, resp>>

Start ==
    /\ now = 0
    /\ pool = "null"
    /\ Users = {}
    /\ Sessions = {}
    /\ Translations = <<>>
    /\ mockUsers = <<>>
    /\ mockTranslations = <<>>
    /\ uuids = [kind \in {"user", "sess", "tr"} |-> 0]
    /\ reqs = {}
    /\ resp = Exchange("none", AuthReq(<<>>, <<>>), NoGate, FALSE, 0, NoBody)
    /\ guestTranslations = <<>>
    /\ screenError = null

Init ==
    /\ USE_MOCK_DB \in BOOLEAN
    /\ SESSION_SECRET \in Secrets
    /\ SESSION_EXPIRATION \in Expirations
    /\ dbUp \in BOOLEAN
    /\ Start

\* one configuration of the session settings, on either backend, the server up
InitServing ==
    /\ USE_MOCK_DB \in BOOLEAN
    /\ SESSION_SECRET = "k1"
    /\ SESSION_EXPIRATION = <<1>>
    /\ dbUp = TRUE
    /\ Start

Types == {"text", "voice"}

\* the requests that need no session, the gate, and the clock and the server
Sessioning ==
    \/ \E email \in RegisterEmails, password \in RegisterPasswords : Register(email, password)
    \/ \E email \in Emails, password \in LoginPasswords : Login(email, password)
    \/ \E header \in Headers : Request(header)
    \/ \E r \in reqs : HandleLogout(r)
    \/ Tick
    \/ DbDown
    \/ DbUp

\* the handlers of the per-user data
Serving ==
    \/ \E r \in reqs, type \in Types, userId \in UserIds : HandleSave(r, type, userId)
    \/ \E r \in reqs, type \in Types, userId \in UserIds : HandleHistory(r, type, userId)
    \/ \E r \in reqs, userId \in UserIds, langs \in LangPairs :
           HandleUpdatePreferences(r, userId, langs)
    \/ \E r \in reqs, userId \in UserIds : HandleGetPreferences(r, userId)

Next == Sessioning \/ Serving

Spec == Init /\ [][Next]_vars

SpecSession == Init /\ [][Sessioning]_vars

\* every request, the clock and the server staying as they are
Requests ==
    \/ \E email \in RegisterEmails, password \in RegisterPasswords : Register(email, password)
    \/ \E email \in Emails, password \in LoginPasswords : Login(email, password)
    \/ \E header \in Headers : Request(header)
    \/ \E r \in reqs : HandleLogout(r)
    \/ Serving

SpecServing == InitServing /\ [][Requests]_vars

(***************************************************************************)
(* Registration and login alone, over passwords on each side of the        *)
(* password policy and with fields left out.                               *)
(***************************************************************************)
Registration ==
    \/ \E email \in RegistrationEmails, password \in RegistrationPasswords :
           Register(email, password)
    \/ \E email \in Emails, password \in RegistrationPasswords : Login(email, password)

SpecRegistration == InitServing /\ [][Registration]_vars

(***************************************************************************)
(* The client. signIn (context/AuthContext.jsx) keeps result.user of the   *)
(* login response; while that response is the last exchange, the screens   *)
(* send their requests with a bearer taken from it.                        *)
(***************************************************************************)
SignedIn == resp.route = "login" /\ resp.status = 200

\* screens/TextTranslationScreen.jsx:81: Authorization: `Bearer ${user.session_id}`
handleSaveTranslationHeader(user) == HeaderOf(Bearer_ \o <<user.session_id>>)

\* VoiceTranslationScreen, saveToServer: 'Authorization': `Bearer ${user.session_id}`
saveToServerHeader(user) == HeaderOf(Bearer_ \o <<user.session_id>>)

\* context/AuthContext.jsx:129: 'Authorization': `Bearer ${signedSessionId}`
signOutHeader(user) == HeaderOf(Bearer_ \o <<user.signed_session_id>>)

handleSaveTranslation == SignedIn /\ Request(handleSaveTranslationHeader(resp.body.user))

saveToServer == SignedIn /\ Request(saveToServerHeader(resp.body.user))

signOut == SignedIn /\ Request(signOutHeader(resp.body.user))

Client ==
    \/ Sessioning
    \/ handleSaveTranslation
    \/ saveToServer
    \/ signOut

SpecClient == Init /\ [][Client]_vars

(***************************************************************************)
(* The process is started again, possibly under another SESSION_SECRET:    *)
(* what it held in memory (the pool, the mock maps, the requests that      *)
(* waited) is gone, the database keeps its rows.                           *)
(***************************************************************************)
Restart(secret) ==
    /\ SESSION_SECRET' = secret
    /\ pool' = "null"
    /\ mockUsers' = <<>>
    /\ mockTranslations' = <<>>
    /\ reqs' = {}
    /\ UNCHANGED <<USE_MOCK_DB, SESSION_EXPIRATION, browser, now, dbUp, prodStore, uuids, resp>>

Restarting ==
    \/ Sessioning
    \/ \E secret \in Secrets : Restart(secret)

SpecRestart == Init /\ [][Restarting]_vars

(***************************************************************************)
(* The two bodies of database.js side by side: each call is made with the  *)
(* same arguments on the mock body and on the production body, each on its *)
(* own store, and resp keeps the pair of results with the status that the  *)
(* route derives from each. USE_MOCK_DB plays no part in these calls.      *)
(***************************************************************************)
LoginStatus(result) == IF result.success THEN 200 ELSE 401

PreferencesStatus(o) == IF o.ok THEN 200 ELSE 500

Pair(route, req, m, q, mockStatus, prodStatus) ==
    Exchange(route, req, NoGate, TRUE, 0,
             [mock |-> m, prod |-> q, mockStatus |-> mockStatus, prodStatus |-> prodStatus])

\* registerUser(email, password)
BothRegister(email, password) ==
    LET m == registerUserMock(email, password)
        q == registerUserProd(email, password)
    IN  /\ uuids["user"] < MaxRegs
        /\ mockUsers' = m.mockUsers
        /\ Users' = q.Users
        /\ uuids' = Bump("user")
        /\ pool' = getPool.pool
        /\ resp' = Pair("register", AuthReq(email, password), m.result, q.result,
                        StatusOf(m.result), StatusOf(q.result))
        /\ UNCHANGED <<config, browser, now, dbUp, Sessions, Translations, mockTranslations, reqs>>

\* loginUser(email, password)
BothLogin(email, password) ==
    LET m == loginUserMock(email, password)
        q == loginUserProd(email, password)
    IN  /\ (m.success \/ q.result.success) => uuids["sess"] < MaxLogins
        /\ Sessions' = q.Sessions
        /\ uuids' = IF m.success \/ q.result.success THEN Bump("sess") ELSE uuids
        /\ pool' = getPool.pool
        /\ resp' = Pair("login", AuthReq(email, password), m, q.result,
                        LoginStatus(m), LoginStatus(q.result))
        /\ UNCHANGED <<config, browser, now, dbUp, Users, Translations, mockStore, reqs>>

\* logoutUser(signedSessionId)
BothLogout(signedSessionId) ==
    LET m == logoutUserMock(signedSessionId)
        q == logoutUserProd(signedSessionId)
    IN  /\ Sessions' = q.Sessions
        /\ pool' = getPool.pool
        /\ resp' = Pair("logout", ApiReq(HeaderOf(Bearer_ \o <<signedSessionId>>), null, "", ""),
                        m, q.result, StatusOf(m), StatusOf(q.result))
        /\ UNCHANGED <<config, browser, now, dbUp, Users, Translations, mockStore, uuids, reqs>>

\* saveTextTranslation, saveVoiceTranslation
BothSave(userId, type) ==
    LET m == saveTranslationMock(userId, type)
        q == saveTranslationProd(userId, type)
    IN  /\ mockTranslations' = m.mockTranslations
        /\ Translations' = q.Translations
        /\ uuids' = Bump("tr")
        /\ pool' = getPool.pool
        /\ resp' = Pair(RouteOf("save", type), ApiReq(NoHeader, userId, "", ""),
                        m.result, q.result, StatusOf(m.result), StatusOf(q.result))
        /\ UNCHANGED <<config, browser, now, dbUp, Users, Sessions, mockUsers, reqs>>

\* getTextTranslationHistory, getVoiceTranslationHistory
BothHistory(userId, type) ==
    /\ pool' = getPool.pool
    /\ resp' = Pair(RouteOf("history", type), ApiReq(NoHeader, userId, "", ""),
                    getTranslationHistoryMock(userId, type),
                    getTranslationHistoryProd(userId, type), 200, 200)
    /\ UNCHANGED <<config, browser, now, dbUp, prodStore, mockStore, uuids, reqs>>

\* updateUserPreferences(userId, defaultFromLang, defaultToLang)
BothUpdatePreferences(userId, langs) ==
    LET m == updateUserPreferencesMock(userId, langs[1], langs[2])
        q == updateUserPreferencesProd(userId, langs[1], langs[2])
    IN  /\ Users' = q.Users
        /\ pool' = getPool.pool
        /\ resp' = Pair("updatePreferences", ApiReq(NoHeader, userId, langs[1], langs[2]),
                        m, q.result, StatusOf(m), StatusOf(q.result))
        /\ UNCHANGED <<config, browser, now, dbUp, Sessions, Translations, mockStore, uuids, reqs>>

\* getUserPreferences(userId)
BothGetPreferences(userId) ==
    LET m == getUserPreferencesMock(userId)
        q == getUserPreferencesProd(userId)
    IN  /\ pool' = getPool.pool
        /\ resp' = Pair("getPreferences", ApiReq(NoHeader, userId, "", ""), m, q,
                        PreferencesStatus(m), PreferencesStatus(q))
        /\ UNCHANGED <<config, browser, now, dbUp, prodStore, mockStore, uuids, reqs>>

InitBoth ==
    /\ USE_MOCK_DB = FALSE
    /\ SESSION_SECRET = "k1"
    /\ SESSION_EXPIRATION = <<1>>
    /\ dbUp = TRUE
    /\ Start

Both ==
    \/ \E email \in Emails, password \in {p \in RegisterPasswords : validatePassword(p)} :
           BothRegister(email, password)
    \/ \E email \in Emails, password \in LoginPasswords : BothLogin(email, password)
    \/ \E t \in Tokens : BothLogout(t)
    \/ \E userId \in UserIds, type \in Types : uuids["tr"] < MaxSaves /\ BothSave(userId, type)
    \/ \E userId \in UserIds, type \in Types : BothHistory(userId, type)
    \/ \E userId \in UserIds, langs \in {<<"en", "fr">>} : BothUpdatePreferences(userId, langs)
    \/ \E userId \in UserIds : BothGetPreferences(userId)

SpecBoth == InitBoth /\ [][Both]_vars

\* saves and history calls alone, on both bodies, with the clock and the server
InitHistory ==
    /\ USE_MOCK_DB = FALSE
    /\ SESSION_SECRET = "k1"
    /\ SESSION_EXPIRATION = <<1>>
    /\ dbUp \in BOOLEAN
    /\ Start

\* the saves made: one user in both kinds, another user in one of them
HistorySaves == {<<"user1", "text">>, <<"user1", "voice">>, <<"user2", "text">>}

Histories ==
    \/ \E save \in HistorySaves : uuids["tr"] < MaxHistory /\ BothSave(save[1], save[2])
    \/ \E userId \in UserIds, type \in Types : BothHistory(userId, type)
    \/ Tick
    \/ DbDown
    \/ DbUp

SpecHistory == InitHistory /\ [][Histories]_vars

\* validateSession(sessionId, signedSessionId)
BothValidateSession(sessionId, signedSessionId) ==
    /\ pool' = getPool.pool
    /\ resp' = Pair("validateSession",
                    ApiReq(HeaderOf(Bearer_ \o <<signedSessionId>>), null, "", ""),
                    validateSessionMock(sessionId, signedSessionId),
                    validateSessionProd(sessionId, signedSessionId), 0, 0)
    /\ UNCHANGED <<config, browser, now, dbUp, prodStore, mockStore, uuids, reqs>>

\* every operation of the backend, called while the database server goes away and comes back
InitOutage ==
    /\ USE_MOCK_DB = FALSE
    /\ SESSION_SECRET = "k1"
    /\ SESSION_EXPIRATION = <<1>>
    /\ dbUp \in BOOLEAN
    /\ Start

\* the token of the first login and one that no login hands out
OutageTokens == {createHmac("k1", "sess1"), "forged"}

Outage ==
    \/ BothRegister(EmailA, Passw0rd)
    \/ BothLogin(EmailA, Passw0rd)
    \/ \E t \in OutageTokens : BothLogout(t)
    \/ \E type \in Types : uuids["tr"] < MaxSaves /\ BothSave("user1", type)
    \/ \E type \in Types : BothHistory("user1", type)
    \/ BothUpdatePreferences("user1", <<"en", "fr">>)
    \/ BothGetPreferences("user1")
    \/ \E t \in OutageTokens : BothValidateSession("sess1", t)
    \/ DbDown
    \/ DbUp

SpecOutage == InitOutage /\ [][Outage]_vars

(***************************************************************************)
(* getPool as the event loop runs it: the test of the pool and the call of *)
(* sql.connect run in one turn, the assignment after the await in a later  *)
(* turn, and other callers run between the two.                            *)
(***************************************************************************)
Callers == 1..MaxCallers

Called(caller) == \E r \in reqs : r.caller = caller

GetPoolResult(caller, outcome) ==
    Exchange("getPool", AuthReq(<<>>, <<>>), NoGate, TRUE, 0,
             [caller |-> caller, outcome |-> outcome])

\* database.js:554-556 and 571-574: a connected pool is returned in the same turn
getPoolCall(caller) ==
    /\ ~Called(caller)
    /\ IF pool # "connected"
       THEN /\ reqs' = reqs \cup {[caller |-> caller, pc |-> "connecting"]}
            /\ UNCHANGED resp
       ELSE /\ reqs' = reqs \cup {[caller |-> caller, pc |-> "returned"]}
            /\ resp' = GetPoolResult(caller, "returned")
    /\ UNCHANGED <<config, browser, now, dbUp, pool, prodStore, mockStore, uuids>>

\* database.js:557-574: sql.connect has settled
getPoolResume(r) ==
    /\ r.pc = "connecting"
    /\ IF dbUp
       THEN /\ pool' = "connected"
            /\ reqs' = (reqs \ {r}) \cup {[r EXCEPT !.pc = "returned"]}
            /\ resp' = GetPoolResult(r.caller, "returned")
       ELSE /\ pool' = "null"
            /\ reqs' = (reqs \ {r}) \cup {[r EXCEPT !.pc = "threw"]}
            /\ resp' = GetPoolResult(r.caller, "threw")
    /\ UNCHANGED <<config, browser, now, dbUp, prodStore, mockStore, uuids>>

InitPool ==
    /\ USE_MOCK_DB = FALSE
    /\ SESSION_SECRET = "k1"
    /\ SESSION_EXPIRATION = <<1>>
    /\ dbUp \in BOOLEAN
    /\ Start

Pooling ==
    \/ \E caller \in Callers : getPoolCall(caller)
    \/ \E r \in reqs : getPoolResume(r)
    \/ DbDown
    \/ DbUp

SpecPool == InitPool /\ [][Pooling]_vars

(***************************************************************************)
(* POST /api/logout from the gate to the response, as one request.         *)
(***************************************************************************)
\* server.js:159-167 behind authenticate, server.js:91-105
PostLogout(header) ==
    LET a == authenticate(header)
        req == ApiReq(header, null, "", "")
    IN  /\ IF a.outcome = "Authorized"
           THEN HandleLogout([header |-> header, gate |-> a.gate, signedSessionId |-> a.gate.token])
           ELSE /\ IF a.outcome = "Threw"
                   THEN \E status \in {0, 500} :
                            resp' = Exchange("logout", req, a.gate, FALSE, status, NoBody)
                   ELSE resp' = Exchange("logout", req, a.gate, FALSE, a.status, a.body)
                /\ pool' = IF a.gate.called /\ ~USE_MOCK_DB THEN getPool.pool ELSE pool
                /\ UNCHANGED <<config, browser, now, dbUp, prodStore, mockStore, uuids>>
        /\ UNCHANGED reqs

LoggingOut ==
    \/ \E email \in Emails, password \in RegisterPasswords : Register(email, password)
    \/ \E email \in Emails, password \in LoginPasswords : Login(email, password)
    \/ \E header \in Headers : PostLogout(header)
    \/ Tick
    \/ DbDown
    \/ DbUp

SpecLogout == Init /\ [][LoggingOut]_vars

(***************************************************************************)
(* The save of a signed-in user on the text and on the voice screen: the   *)
(* request, the server's answer and what the screen does with it.          *)
(***************************************************************************)
\* VoiceTranslationScreen as commented, saveToServer: `Bearer ${user.signed_session_id}`
saveToServerBearer(user) == HeaderOf(Bearer_ \o <<user.signed_session_id>>)

\* TextTranslationScreen.jsx:90-96: if (saveResult.success) setIsSaved(true)
handleSaveTranslationIsSaved(x) ==
    x.status # 0 /\ "success" \in DOMAIN x.body /\ x.body.success

\* saveToServer: if (!response.ok) throw ...; setIsSaved(true)
saveToServerIsSaved(x) == x.status \in 200..299

\* the screens send their request; the gate answers it or passes it on to its handler
textScreenSave == SignedIn /\ Request(handleSaveTranslationHeader(resp.body.user))

voiceScreenSave == SignedIn /\ Request(saveToServerBearer(resp.body.user))

InitSaving ==
    /\ USE_MOCK_DB \in BOOLEAN
    /\ SESSION_SECRET = "k1"
    /\ SESSION_EXPIRATION = <<1>>
    /\ dbUp \in BOOLEAN
    /\ Start

Saving ==
    \/ Register(EmailA, Passw0rd)
    \/ Login(EmailA, Passw0rd)
    \/ textScreenSave
    \/ voiceScreenSave
    \/ \E r \in reqs, type \in Types : HandleSave(r, type, "user1")
    \/ Tick
    \/ DbDown
    \/ DbUp

SpecSaving == InitSaving /\ [][Saving]_vars

(***************************************************************************)
(* The screens of a guest (user = null): translations are kept in the      *)
(* browser's localStorage, no request is sent.                             *)
(***************************************************************************)
GuestLimit == 20

LimitReached == "Guest limit reached: Maximum 20 translations."

\* the limit test without its boundary
AtGuestLimit_Over(savedTranslations) == Len(savedTranslations) > GuestLimit

\* TextTranslationScreen.jsx:99 and VoiceTranslationScreen, processAudio:
\* if (savedTranslations.length >= 20)
AtGuestLimit(savedTranslations) == Len(savedTranslations) >= GuestLimit

VoiceEntries == {i \in 1..Len(guestTranslations) : guestTranslations[i].type = "voice"}

\* TextTranslationScreen.jsx:45-52, handleTranslate: setError(null)
handleTranslate ==
    /\ screenError' = null
    /\ UNCHANGED <<config, now, dbUp, pool, prodStore, mockStore, uuids, reqs, resp,
                   guestTranslations>>

\* TextTranslationScreen.jsx:69-75 and 97-115, handleSaveTranslation of a guest
guestSaveTranslation(translatedText, langs) ==
    LET savedTranslations == guestTranslations
        newTranslation == [id |-> now, type |-> null, fromLang |-> langs[1], toLang |-> langs[2],
                           translatedText |-> translatedText]
    IN  /\ IF translatedText = ""
           THEN UNCHANGED browser
           ELSE IF langs[1] = "" \/ langs[2] = ""
           THEN /\ screenError' = "Please select both source and target languages."
                /\ UNCHANGED guestTranslations
           ELSE IF AtGuestLimit(savedTranslations)
           THEN /\ screenError' = LimitReached
                /\ UNCHANGED guestTranslations
           ELSE /\ guestTranslations' = Append(savedTranslations, newTranslation)
                /\ UNCHANGED screenError
        /\ UNCHANGED <<config, now, dbUp, pool, prodStore, mockStore, uuids, reqs, resp>>

\* VoiceTranslationScreen, processAudio of a guest; transcribed = FALSE when
\* transcribeAudio or translateText throws
processAudio(transcribed) ==
    LET savedTranslations == guestTranslations
        newTranslation == [id |-> now, type |-> "voice", fromLang |-> "en", toLang |-> "fr",
                           translatedText |-> "bonjour"]
    IN  /\ IF ~transcribed
           THEN /\ screenError' = "Transcription or translation failed. Please try again."
                /\ UNCHANGED guestTranslations
           ELSE IF AtGuestLimit(savedTranslations)
           THEN /\ screenError' = LimitReached
                /\ UNCHANGED guestTranslations
           ELSE /\ guestTranslations' = Append(savedTranslations, newTranslation)
                /\ UNCHANGED screenError
        /\ UNCHANGED <<config, now, dbUp, pool, prodStore, mockStore, uuids, reqs, resp>>

Guest ==
    \/ handleTranslate
    \/ \E translatedText \in {"", "bonjour"}, langs \in LangPairs :
           guestSaveTranslation(translatedText, langs)
    \/ \E transcribed \in BOOLEAN :
           Cardinality(VoiceEntries) < MaxGuestVoice /\ processAudio(transcribed)

SpecGuest == InitBoth /\ [][Guest]_vars

(***************************************************************************)
(* Properties.                                                             *)
(***************************************************************************)
AllTokens == Tokens \cup {""}

\* a record of the session store carries this token
HasRecord(t) == \E x \in Sessions : x.signed_session_id = t

\* a record carries this token and the clock is before its expiry
Live(t) == \E x \in Sessions : x.signed_session_id = t /\ now < x.expires_at

\* the tokens the logins of this run have handed out
IssuedTokens == {createHmac(sessionKey, "sess" \o ToString(i)) : i \in 1..uuids["sess"]}

DataRoutes == {RouteOf(op, type) : op \in {"save", "history"}, type \in Types}
                  \cup {"updatePreferences", "getPreferences"}

\* the record of the user with this email verifies this password
Verifies(email, password) ==
    IF USE_MOCK_DB
    THEN email \in DOMAIN mockUsers /\ mockUsers[email].password = password
    ELSE \E u \in Users : u.email = email /\ bcryptCompare(password, u.password_hash)

Registered(email) ==
    IF USE_MOCK_DB THEN email \in DOMAIN mockUsers ELSE \E u \in Users : u.email = email

\* C1 as the specification states it: on either backend, in every reachable
\* state, validateSession reports a token valid if and only if the session
\* store holds a record with that token and the clock is strictly before the
\* record's expiry.
C1_ValidIffLiveRecord ==
    \A t \in AllTokens : (validateSession(null, t) = "valid") <=> Live(t)

\* C1 amended: validateSession reports a token valid if and only if the session
\* store holds a record with that token, the clock is strictly before the
\* record's expiry, and the lookup in the store completes; when the store
\* cannot be reached every token is reported invalid, and the mock backend,
\* which keeps no session records, never reports a token valid.
C1_ValidIffLiveRecordReached ==
    \A t \in AllTokens :
        (validateSession(null, t) = "valid") <=> (Live(t) /\ ~USE_MOCK_DB /\ Reachable)

\* after a login and a clock advance one token is valid while another token, which
\* has no record, is not
C1_Witness ==
    /\ now > 0
    /\ \E t \in AllTokens : Live(t) /\ validateSession(null, t) = "valid"
    /\ \E t \in AllTokens : ~HasRecord(t) /\ validateSession(null, t) = "invalid"

\* C2 as the specification states it: on either backend, a login whose
\* password does not verify against the stored credential of the given
\* identity fails with the credentials error, and its response carries no user
\* and no token.
C2_WrongPasswordRefused ==
    (/\ resp.route = "login"
     /\ Registered(resp.req.email)
     /\ ~Verifies(resp.req.email, resp.req.password))
        => (/\ resp.status = 401
            /\ ~resp.body.success
            /\ "user" \notin DOMAIN resp.body)

LogoutOfNoRecord(r) == HandleLogout(r) /\ ~HasRecord(r.signedSessionId)

\* C4 as the specification states it, the part about a repeated logout: a
\* logout of a token that has no record (a second logout, or a token never
\* stored) answers success and leaves the session store as it was.
C4_RevokeAgainSucceeds ==
    [][\A r \in reqs :
           LogoutOfNoRecord(r) => (resp'.status = 200 /\ resp'.body.success /\ Sessions' = Sessions)]_vars

\* once a token that a login handed out has no record, it has none ever after
RevokedForGood ==
    \A t \in AllTokens : (t \in IssuedTokens /\ ~HasRecord(t)) => (~HasRecord(t))'

\* C4 amended: after a logout has answered success for a token, validateSession
\* never reports that token valid again; a logout of a token that has no record
\* leaves the session store as it was, and answers success whenever the store
\* can be reached (always, on the mock) and a failure otherwise.
C4_RevokedStaysInvalid ==
    /\ []((resp.route = "logout" /\ resp.status = 200)
              => (~HasRecord(resp.gate.token) /\ validateSession(null, resp.gate.token) # "valid"))
    /\ [][RevokedForGood]_vars
    /\ [][\A r \in reqs :
              LogoutOfNoRecord(r)
                  => (/\ Sessions' = Sessions
                      /\ (resp'.status = 200) <=> (USE_MOCK_DB \/ Reachable))]_vars

\* on the production backend a logout has answered success for a token that a
\* login handed out; the token has no record any more, and an equal logout
\* request is still waiting for its handler
C4_Witness ==
    /\ ~USE_MOCK_DB
    /\ resp.route = "logout"
    /\ resp.status = 200
    /\ resp.gate.token \in IssuedTokens
    /\ ~HasRecord(resp.gate.token)
    /\ \E r \in reqs : r.signedSessionId = resp.gate.token

\* C5 as the specification states it, the validity window: a session whose
\* record is in the store validates at every time strictly before its expiry
\* and at no time at or after it.
C5_ValidatesUntilExpiry ==
    \A x \in Sessions :
        (validateSession(null, x.signed_session_id) = "valid") <=> (now < x.expires_at)

\* C5 amended: a login at time t0 under a numeric time to live T stores a
\* session that expires at t0 + T; while its record is in the store it
\* validates at exactly the times strictly before t0 + T at which the store
\* can be reached, and at no time at or after t0 + T; under a time to live
\* that is not a number no session is stored.
C5_ExpiresAtIssuePlusTtl ==
    /\ [](\A x \in Sessions :
              (validateSession(null, x.signed_session_id) = "valid")
                  <=> (now < x.expires_at /\ Reachable))
    /\ [][\A x \in Sessions' \ Sessions :
              /\ SESSION_EXPIRATION # <<>>
              /\ x.expires_at = now + SESSION_EXPIRATION[1]]_vars

\* under a time to live of one second a session was stored and, the clock
\* having reached its expiry, is reported invalid though its record is there
C5_Witness ==
    /\ SESSION_EXPIRATION = <<1>>
    /\ Reachable
    /\ \E x \in Sessions :
           /\ now >= x.expires_at
           /\ validateSession(null, x.signed_session_id) = "invalid"

\* C6 as the specification states it: an operation behind the gate is
\* performed for the user who owns the session of the request's token.
C6_ActsForSessionOwner ==
    (resp.route \in DataRoutes /\ resp.backend)
        => \A x \in Sessions :
               x.signed_session_id = resp.gate.token => x.user_id = resp.req.userId

\* C7: an operation on per-user data reaches the backend only for a request
\* whose own bearer token validateSession has reported valid; registration
\* and login are the only operations that reach the backend with no gate.
C7_BackendOnlyBehindGate ==
    /\ \A r \in reqs :
           /\ r.gate.called
           /\ r.gate.isValid = "valid"
           /\ r.header = HeaderOf(Bearer_ \o <<r.gate.token>>)
    /\ (resp.backend /\ resp.route \notin {"register", "login"})
           => (/\ resp.gate.called
               /\ resp.gate.isValid = "valid"
               /\ resp.req.header = HeaderOf(Bearer_ \o <<resp.gate.token>>))
    /\ (resp.backend /\ resp.route \in {"register", "login"}) => ~resp.gate.called

\* a translation was saved for a request that came through the gate
C7_Witness ==
    /\ resp.route \in {"saveText", "saveVoice"}
    /\ resp.backend
    /\ resp.status = 200
    /\ resp.gate.isValid = "valid"

\* the header is absent, does not begin with the scheme and a space, or has
\* nothing after them
Malformed(header) ==
    \/ ~header.present
    \/ ~StartsWith(header.value, Bearer_)
    \/ Len(header.value) = Len(Bearer_)

\* C8 as the specification states it: a request whose Authorization header is
\* absent, does not begin with 'Bearer ', or has no token after the scheme is
\* answered 401 "No token provided", and validateSession is not called for it.
C8_MalformedHeaderNoToken ==
    (resp.route = "gate" /\ Malformed(resp.req.header))
        => (/\ resp.status = 401
            /\ resp.body = [success |-> FALSE, error |-> "Unauthorized: No token provided"]
            /\ ~resp.gate.called)

\* C9: a request whose bearer token validateSession reports invalid is
\* answered 401 "Invalid or expired session" by the gate, no backend operation
\* runs for it, and it is never passed on to a handler.
C9_InvalidSessionRejected ==
    /\ (resp.gate.called /\ resp.gate.isValid = "invalid")
           => (/\ resp.route = "gate"
               /\ resp.status = 401
               /\ resp.body = [success |-> FALSE,
                               error |-> "Unauthorized: Invalid or expired session"]
               /\ ~resp.backend)
    /\ \A r \in reqs : r.gate.isValid # "invalid"
    /\ \A header \in Headers :
           LET a == authenticate(header)
           IN  (a.gate.called /\ a.gate.isValid = "invalid")
                   => a.outcome = "InvalidOrExpiredSession"

\* the gate has refused the token of a session whose record is in the store
\* and has expired
C9_Witness ==
    /\ resp.route = "gate"
    /\ resp.gate.isValid = "invalid"
    /\ resp.status = 401
    /\ \E x \in Sessions : x.signed_session_id = resp.gate.token /\ now >= x.expires_at

\* C10 as the specification states it: on either backend, the token that a
\* successful login has just handed out is reported valid by validateSession,
\* so that the gate passes a request that carries it, as long as the session
\* has not expired, no logout has run and the store can be reached.
C10_IssuedTokenAuthorized ==
    (/\ resp.route = "login"
     /\ resp.status = 200
     /\ SESSION_EXPIRATION = <<1>>
     /\ USE_MOCK_DB \/ (Reachable /\ Live(resp.body.user.signed_session_id)))
        => authenticate(HeaderOf(Bearer_ \o <<resp.body.user.signed_session_id>>)).outcome
               = "Authorized"

\* the stored users with this email: id and stored password (hash)
StoredUsers(email) ==
    IF USE_MOCK_DB
    THEN IF email \in DOMAIN mockUsers
         THEN {[id |-> mockUsers[email].id, password |-> mockUsers[email].password]}
         ELSE {}
    ELSE {[id |-> u.id, password |-> u.password_hash] : u \in {v \in Users : v.email = email}}

\* C11 as the specification states it: on either backend, while the store can
\* be reached, a registration that passes validation for an email that is
\* already registered is refused (400, no success), and the user stored under
\* that email keeps its id and its stored password hash.
C11_DuplicateEmailRefused ==
    [][\A email \in Emails, password \in RegisterPasswords :
           (/\ Register(email, password)
            /\ validatePassword(password)
            /\ Registered(email)
            /\ USE_MOCK_DB \/ Reachable)
               => (/\ resp'.status = 400
                   /\ ~resp'.body.success
                   /\ StoredUsers(email)' = StoredUsers(email))]_vars

\* the structure of a result: its fields and its success flag
Shape(result) ==
    [fields |-> DOMAIN result,
     success |-> IF "success" \notin DOMAIN result THEN "absent"
                 ELSE IF result.success THEN "true" ELSE "false"]

\* C12 as the specification states it: whenever the same call is made on the
\* mock body and on the production body after the same calls before it, the
\* two results have the same fields and the same success flag, and the route
\* derives the same HTTP status from them.
C12_SameShapeOnBothBackends ==
    ("mock" \in DOMAIN resp.body)
        => (/\ Shape(resp.body.mock) = Shape(resp.body.prod)
            /\ resp.body.mockStatus = resp.body.prodStatus)

\* C13 as the specification states it: on either backend, whenever the gate
\* has called validateSession and the call did not establish a valid session,
\* failures of the call included, the result is invalid: the request is
\* answered 401 as an invalid session and nothing runs for it.
C13_FailuresAreInvalid ==
    (resp.route = "gate" /\ resp.gate.called)
        => (/\ resp.gate.isValid = "invalid"
            /\ resp.status = 401
            /\ ~resp.backend)

\* C14 as the specification states it: a token that is not the signature of
\* its session id under the secret now in force (it was signed under a secret
\* that has since been changed) is not reported valid by validateSession.
C14_OldSecretTokensRejected ==
    \A x \in Sessions :
        x.signed_session_id # createHmac(sessionKey, x.session_id)
            => validateSession(null, x.signed_session_id) # "valid"

\* the gate has just been given this token: it answered for it, or passed the
\* request on
GateGiven(token) ==
    IF resp' # resp THEN resp'.route = "gate" /\ resp'.gate.token = token
    ELSE \E r \in reqs' : r.signedSessionId = token

\* C15 as the specification states it: every request that the client sends
\* to an endpoint behind the gate after a login carries the signed session id
\* of the login response as its bearer, and the gate does not pass a request
\* whose bearer is the raw session id of a stored session.
C15_BearerIsSignedSessionId ==
    [][/\ (handleSaveTranslation \/ saveToServer \/ signOut)
              => GateGiven(resp.body.user.signed_session_id)
       /\ \A x \in Sessions :
              authenticate(HeaderOf(Bearer_ \o <<x.session_id>>)).outcome # "Authorized"]_vars

\* what loginUser returns for these credentials in this state
LoginResult(email, password) ==
    IF USE_MOCK_DB THEN loginUserMock(email, password)
    ELSE loginUserProd(email, password).result

\* C16 as the specification states it: on either backend, for any password,
\* a login with an email that is not registered gets the same result as a
\* login with a registered email and a password that does not verify.
C16_SameFailureForUnknownEmail ==
    \A known, unknown \in Emails, password \in LoginPasswords :
        (/\ Registered(known)
         /\ ~Verifies(known, password)
         /\ ~Registered(unknown))
            => LoginResult(known, password) = LoginResult(unknown, password)

\* the password policy in words: at least 8 characters, an uppercase letter,
\* a symbol of the special-character set
MeetsPolicy(password) ==
    /\ Len(password) >= 8
    /\ \E i \in 1..Len(password) : password[i] \in Upper
    /\ \E i \in 1..Len(password) : password[i] \in Special

PolicyError ==
    [success |-> FALSE,
     error |-> "Password must be at least 8 characters long, contain at least one uppercase letter, and one special character"]

\* the last exchange is a registration that the password check refused
RefusedForPolicy == resp.route = "register" /\ resp.status = 400 /\ resp.body = PolicyError

\* the last exchange is a registration that got as far as the password check
ReachedPolicy ==
    /\ resp.route = "register"
    /\ resp.req.email # <<>>
    /\ resp.req.password # <<>>
    /\ validateEmail(resp.req.email)

\* a field is missing, the email has not the form of an email, or the
\* password does not meet the policy
BadRegistration(email, password) ==
    \/ email = <<>>
    \/ password = <<>>
    \/ ~(\E i, j \in 1..Len(email) : i > 1 /\ i + 1 < j /\ j < Len(email)
                                      /\ email[i] = "@" /\ email[j] = ".")
    \/ ~MeetsPolicy(password)

\* C17: a registration request with a missing field, an email that is not of
\* the form of an email, or a password that does not meet the policy is
\* answered 400 without any backend call: the user stores and the identifiers
\* handed out are as before. (A step that leaves a registration as the last
\* exchange is the handling of that registration request.)
C17_RejectedBeforeBackend ==
    [][(resp'.route = "register" /\ BadRegistration(resp'.req.email, resp'.req.password))
           => (/\ resp'.status = 400
               /\ ~resp'.backend
               /\ ~resp'.body.success
               /\ Users' = Users
               /\ mockUsers' = mockUsers
               /\ uuids' = uuids)]_vars

\* a registration with the email not-an-email has been refused while a user is
\* registered
C17_Witness ==
    /\ resp.route = "register"
    /\ resp.req.email = NotAnEmail
    /\ resp.status = 400
    /\ ~resp.backend
    /\ \E email \in Emails : Registered(email)

\* C18 as the specification states it: a registration that reaches the
\* password check is refused by it if and only if the password does not meet
\* the policy, and a login is never answered with the policy error.
C18_PolicyIffAccepted ==
    /\ ReachedPolicy => (RefusedForPolicy <=> ~MeetsPolicy(resp.req.password))
    /\ resp.route = "login" => resp.body # PolicyError

\* C19 as the specification states it: registration validation refuses the
\* password short1 and lets the password Short1! through.
C19_Short1Examples ==
    /\ (ReachedPolicy /\ resp.req.password = short1) => RefusedForPolicy
    /\ (ReachedPolicy /\ resp.req.password = Short1_) => ~RefusedForPolicy

\* C19 amended: registration validation refuses the password short1 and also
\* the password Short1!, which has 7 characters; it lets the 8-character
\* password Short12! through to the backend.
C19_Short1ExamplesByLength ==
    /\ (ReachedPolicy /\ resp.req.password = short1) => RefusedForPolicy
    /\ (ReachedPolicy /\ resp.req.password = Short1_) => RefusedForPolicy
    /\ (ReachedPolicy /\ resp.req.password = Short12_) => (~RefusedForPolicy /\ resp.backend)

\* a registration with the password Short1! has been refused for the policy
C19_Witness ==
    /\ ReachedPolicy
    /\ resp.req.password = Short1_
    /\ RefusedForPolicy

\* the kind a history route asks for
KindOf(route) == IF route \in {"historyText", "saveText"} THEN "text" ELSE "voice"

NewestFirst(h) == \A i, j \in 1..Len(h) : i < j => h[i].createdAt >= h[j].createdAt

\* the rows of a store that were saved for this user and this kind
SavedFor(store, userId, type) ==
    {k \in 1..Len(store) : store[k].userId = userId /\ store[k].type = type}

\* h holds each row saved for the user and the kind once, as stored, nothing else, newest first
HistoryOf(h, store, userId, type) ==
    /\ NewestFirst(h)
    /\ \A i \in 1..Len(h) : h[i].userId = userId /\ h[i].type = type
    /\ Len(h) = Cardinality(SavedFor(store, userId, type))
    /\ \A k \in SavedFor(store, userId, type) : \E i \in 1..Len(h) : h[i] = store[k]

HistoryReturned ==
    resp.route \in {"historyText", "historyVoice"} =>
        /\ HistoryOf(resp.body.mock.array, mockTranslations, resp.req.userId, KindOf(resp.route))
        /\ "array" \in DOMAIN resp.body.prod =>
               HistoryOf(resp.body.prod.array, Translations, resp.req.userId, KindOf(resp.route))

\* the row a save adds: the caller's user, kind and texts, stamped with the time of the save
SavedRow(store, row) ==
    /\ row.userId = resp'.req.userId
    /\ row.type = KindOf(resp'.route)
    /\ row.originalText = "hello" /\ row.translatedText = "bonjour"
    /\ row.createdAt = now
    /\ \A k \in 1..Len(store) : store[k].id # row.id

SaveAppends ==
    IF resp'.route \in {"saveText", "saveVoice"} /\ uuids'["tr"] # uuids["tr"]
    THEN /\ Len(mockTranslations') = Len(mockTranslations) + 1
         /\ SubSeq(mockTranslations', 1, Len(mockTranslations)) = mockTranslations
         /\ SavedRow(mockTranslations, mockTranslations'[Len(mockTranslations')])
         /\ IF resp'.body.prod.success
            THEN /\ Len(Translations') = Len(Translations) + 1
                 /\ SubSeq(Translations', 1, Len(Translations)) = Translations
                 /\ SavedRow(Translations, Translations'[Len(Translations')])
            ELSE Translations' = Translations
    ELSE mockTranslations' = mockTranslations /\ Translations' = Translations

\* C20: a history call that succeeds returns exactly the rows saved for that user and
\* that kind, none of another user or of the other kind, newest first; a save adds one
\* row and no step changes or removes a row already saved, so each saved row appears
\* unchanged in every later history result.
C20_HistoryIsWhatWasSaved == []HistoryReturned /\ [][SaveAppends]_vars

\* a history of two rows saved at different times, returned by both bodies while the
\* store also holds a row of another user or of the other kind
C20_Witness ==
    /\ resp.route = "historyText"
    /\ Len(resp.body.mock.array) = 2
    /\ resp.body.mock.array[1].createdAt > resp.body.mock.array[2].createdAt
    /\ "array" \in DOMAIN resp.body.prod
    /\ resp.body.prod.array = resp.body.mock.array
    /\ Len(mockTranslations) = 3 /\ Len(Translations) = 3

\* the production body ended without a success result
ProdFailed(x) ==
    CASE x.route = "validateSession" -> x.body.prod = "invalid"
      [] x.route = "getPreferences" -> ~x.body.prod.ok
      [] OTHER -> "success" \in DOMAIN x.body.prod /\ ~x.body.prod.success

ConnectFailed(x) ==
    /\ ProdFailed(x)
    /\ x.route # "validateSession" => x.body.prod.error = "Failed to connect to the database: ETIMEOUT"

\* the operation reached the store: its result is not the connection failure, and a
\* validation answers what the session records say
Issued(x) ==
    IF x.route = "validateSession"
    THEN x.body.prod = "valid" <=> spValidateSession(x.req.header.value[Len(Bearer_) + 1]) # {}
    ELSE ~ConnectFailed(x)

\* C21: a production operation called without a connected pool reconnects and is issued
\* when the server answers; when the reconnection fails it ends with the connection
\* failure as its result, changes nothing in the store and leaves the pool uninitialized;
\* a connected pool is reused.
C21_ReconnectOrUnavailable ==
    [][dbUp' = dbUp =>
         /\ (pool # "connected" /\ dbUp) => (pool' = "connected" /\ Issued(resp'))
         /\ (pool # "connected" /\ ~dbUp) =>
                (pool' = "null" /\ ConnectFailed(resp') /\ prodStore' = prodStore)
         /\ pool = "connected" => pool' = "connected"]_vars

\* a save refused because the reconnection failed, after which the pool is uninitialized
C21_Witness ==
    /\ resp.route = "saveText"
    /\ resp.body.prod = [success |-> FALSE, error |-> "Failed to connect to the database: ETIMEOUT"]
    /\ pool = "null"
    /\ ~dbUp

\* every call of getPool has settled
Settled == \A r \in reqs : r.pc # "connecting"

\* C22: once every concurrent call of getPool has settled, a pool that some caller
\* connected and was handed is still the shared pool; no failed attempt of another
\* caller has discarded it.
C22_FailedAttemptKeepsPool ==
    (Settled /\ \E r \in reqs : r.pc = "returned") => pool = "connected"

KnownToProd(userId) == \E u \in Users : u.id = userId
KnownToMock(userId) == \E e \in DOMAIN mockUsers : mockUsers[e].id = userId

\* C23: updateUserPreferences fails when no user matches userId, on either body.
C23_UnknownUserRefused ==
    resp.route = "updatePreferences" =>
        /\ ~KnownToProd(resp.req.userId) => ~resp.body.prod.success
        /\ ~KnownToMock(resp.req.userId) => ~resp.body.mock.success

StoredPreferences(userId) ==
    LET u == CHOOSE x \in Users : x.id = userId
    IN  [default_from_lang |-> u.default_from_lang, default_to_lang |-> u.default_to_lang]

\* C24: getUserPreferences returns the stored languages of an existing user, and the
\* not-found outcome for a userId that matches no user, on either body.
C24_UnknownUserNotFound ==
    resp.route = "getPreferences" =>
        /\ KnownToProd(resp.req.userId) =>
               resp.body.prod = [ok |-> TRUE, row |-> StoredPreferences(resp.req.userId)]
        /\ ~KnownToProd(resp.req.userId) =>
               resp.body.prod = [ok |-> FALSE, error |-> "User not found"]
        /\ ~KnownToMock(resp.req.userId) => ~resp.body.mock.ok

\* C25: with no secret configured, no login hands out a token signed with the built-in key.
C25_NoDefaultKey ==
    (SESSION_SECRET = "" /\ SignedIn) =>
        resp.body.user.signed_session_id # createHmac("default-secret", resp.body.user.session_id)

Confirmation == [success |-> TRUE, message |-> "Logged out successfully"]

\* C26: a logout request whose token has no live session record (revoked, expired or
\* never issued) is answered with the confirmation of a first logout, while the store
\* can be reached.
C26_LogoutOfInvalidConfirmed ==
    [][(/\ resp' # resp
        /\ resp'.route = "logout"
        /\ resp'.gate.called
        /\ ~USE_MOCK_DB
        /\ Reachable
        /\ spValidateSession(resp'.gate.token) = {})
       => (resp'.status = 200 /\ resp'.body = Confirmation)]_vars

\* the screen that reads this answer marks the translation saved; an answer of the gate
\* is read by the screen that sent the request, which may be either
IsSaved(x) ==
    CASE x.route = "saveText" -> handleSaveTranslationIsSaved(x)
      [] x.route = "saveVoice" -> saveToServerIsSaved(x)
      [] OTHER -> handleSaveTranslationIsSaved(x) \/ saveToServerIsSaved(x)

\* the step stored one more translation
Stored ==
    IF USE_MOCK_DB THEN Len(mockTranslations') = Len(mockTranslations) + 1
    ELSE Len(Translations') = Len(Translations) + 1

\* C27: a save of a signed-in user marks the translation saved on the screen only when
\* the server stored it and answered with success.
C27_SavedOnlyOnSuccess ==
    [][(resp' # resp /\ resp'.route \in {"saveText", "saveVoice", "gate"} /\ IsSaved(resp'))
       => (Stored /\ resp'.backend /\ resp'.body.success)]_vars

\* a voice save that the backend refused, answered 400 and not marked saved
C27_Witness ==
    /\ resp.route = "saveVoice"
    /\ resp.backend
    /\ ~resp.body.success
    /\ ~IsSaved(resp)

\* C28: a request that the gate does not pass on to its handler is answered: no
\* exchange at the gate ends without a response, also when validateSession throws.
C28_GateAlwaysAnswers ==
    resp.route = "gate" => resp.status # 0

\* C29: the guest's list never holds more than 20 translations, and a save or a voice
\* translation attempted at the limit leaves the list as it was and reports the
\* guest-limit error.
C29_GuestLimit ==
    /\ [](Len(guestTranslations) <= GuestLimit)
    /\ [][(/\ Len(guestTranslations) = GuestLimit
           /\ guestSaveTranslation("bonjour", <<"en", "fr">>) \/ processAudio(TRUE))
          => (guestTranslations' = guestTranslations /\ screenError' = LimitReached)]_vars
    /\ [][Len(guestTranslations) = GuestLimit => guestTranslations' = guestTranslations]_vars

\* a guest at the limit, with text and voice entries, who has just been refused a save
C29_Witness ==
    /\ Len(guestTranslations) = GuestLimit
    /\ VoiceEntries # {}
    /\ \E i \in 1..Len(guestTranslations) : guestTranslations[i].type = null
    /\ screenError = LimitReached

\* what the update asked for, as getUserPreferences returns it
Asked(x) ==
    [ok |-> TRUE, row |-> [default_from_lang |-> x.req.default_from_lang,
                           default_to_lang |-> x.req.default_to_lang]]

\* C30: once updateUserPreferences has returned success for an existing user,
\* getUserPreferences returns the languages of that update, on either body.
C30_PreferencesRoundTrip ==
    [][\A userId \in UserIds :
         (resp' # resp /\ resp'.route = "updatePreferences" /\ resp'.req.userId = userId) =>
             /\ (resp'.body.prod.success /\ KnownToProd(userId)) =>
                    getUserPreferencesProd(userId)' = Asked(resp')
             /\ (resp'.body.mock.success /\ KnownToMock(userId)) =>
                    getUserPreferencesMock(userId)' = Asked(resp')]_vars

====
